---- MODULE Spec2Model ----
(***************************************************************************)
(* Model of command-launcher-package-action: the package directory         *)
(* resolver (findPackageDirectories), the manifest validator               *)
(* (validateManifest), the passes built on them (validatePackages,         *)
(* createPackages), the publishing steps (pushToOCI, createPluginReleases) *)
(* and run, which chains them.                                             *)
(*                                                                         *)
(* Strings the code inspects character by character (versions, names) are  *)
(* sequences of one-character strings.  A path is the sequence of its      *)
(* segments: '' is << >>, '.' is <<".">>, 'packages/pa' is                  *)
(* <<"packages", "pa">>.                                                   *)
(***************************************************************************)
EXTENDS Integers, Sequences, FiniteSets, TLC

VARIABLES
    fs,                 \* the working tree: directory path -> its entries, in readdir order
    pc,                 \* "setup" while the host prepares the tree, then the call that ran
    packagesDirectory,  \* the hint the call was made with
    packageDirs,        \* outcome of findPackageDirectories
    validateResult,     \* outcome of validatePackages
    packageResult,      \* outcome of createPackages
    manifest,           \* the manifest handed to validateManifest
    validation,         \* the ValidationResult it returned
    run,                \* a run of the action: its inputs, its progress, what it did
    world,              \* what outlives a run: build/packages, the registry, the repository
    releaseResult,      \* outcome of createPluginReleases
    archive             \* an archive name and what the two parsers made of it

vars == <<fs, pc, packagesDirectory, packageDirs, validateResult, packageResult,
          manifest, validation, run, world, releaseResult, archive>>

fsVars == <<fs, packagesDirectory, packageDirs, validateResult, packageResult>>
mfVars == <<manifest, validation, archive>>
runVars == <<run, world, releaseResult>>

\* Bounds of the model
MaxEntries == 6         \* entries the host creates in the working tree
MaxCmds == 2            \* commands in an enumerated manifest

(***************************************************************************)
(* The file system                                                         *)
(***************************************************************************)
ManifestName == "manifest.mf"

\* Shape of the trees the host may lay out: directory -> names it may hold,
\* with the kinds each name may take.
Shape ==
    [d \in {<< >>, <<"pa">>, <<"packages">>, <<"packages", "pa">>,
            <<"packages", "pb">>, <<"packages", "pa", "sub">>} |->
        CASE d = << >> ->
               {<<ManifestName, "file">>, <<"packages", "file">>, <<"packages", "dir">>,
                <<"pa", "file">>, <<"pa", "dir">>}
          [] d = <<"pa">> -> {<<ManifestName, "file">>}
          [] d = <<"packages">> ->
               {<<ManifestName, "file">>, <<"pa", "file">>, <<"pa", "dir">>,
                <<"pb", "file">>, <<"pb", "dir">>}
          [] d = <<"packages", "pa">> -> {<<ManifestName, "file">>, <<"sub", "dir">>}
          [] d = <<"packages", "pb">> -> {<<ManifestName, "file">>}
          [] d = <<"packages", "pa", "sub">> -> {<<ManifestName, "file">>}]

DirPaths == DOMAIN Shape

\* path.normalize on a relative path without '..': '.' and empty segments
\* vanish, and the empty result is '.'
RECURSIVE DropDots(_)
DropDots(p) ==
    IF p = << >> THEN << >>
    ELSE IF Head(p) = "." \/ Head(p) = "" THEN DropDots(Tail(p))
    ELSE <<Head(p)>> \o DropDots(Tail(p))

PathJoin(a, b) ==
    LET n == DropDots(a \o b) IN IF n = << >> THEN <<".">> ELSE n

\* path.basename
Basename(p) == IF p = << >> THEN "" ELSE p[Len(p)]

\* the entry a path names, or a record of kind "none"
NoEntry == [name |-> "", kind |-> "none", data |-> "none"]

RECURSIVE Lookup(_, _)
\* '' names nothing (ENOENT); '.' names the working directory
Lookup(f, p) ==
    LET q == DropDots(p) IN
    IF p = << >> THEN NoEntry
    ELSE IF q = << >> THEN [name |-> ".", kind |-> "dir", data |-> "none"]
    ELSE LET parent == SubSeq(q, 1, Len(q) - 1)
             up == Lookup(f, <<".">> \o parent)
         IN IF up.kind # "dir" \/ parent \notin DirPaths THEN NoEntry
            ELSE LET hits == {i \in DOMAIN f[parent] : f[parent][i].name = q[Len(q)]}
                 IN IF hits = {} THEN NoEntry ELSE f[parent][CHOOSE i \in hits : TRUE]

\* fs.access(path): resolves when the path exists
Access(f, p) == Lookup(f, p).kind # "none"

IsDirectory(f, p) == Lookup(f, p).kind = "dir"

\* fs.readdir(dir, {withFileTypes: true}): the entries in listing order
Readdir(f, d) == f[DropDots(d)]

EntryCount(f) ==
    LET RECURSIVE Sum(_)
        Sum(S) == IF S = {} THEN 0
                  ELSE LET d == CHOOSE x \in S : TRUE IN Len(f[d]) + Sum(S \ {d})
    IN Sum(DirPaths)

(***************************************************************************)
(* findPackageDirectories                                                  *)
(***************************************************************************)
RECURSIVE ScanEntries_AnyDirectory(_, _, _)
\* the loop with the manifest check left out: every subdirectory is a package
ScanEntries_AnyDirectory(f, targetDir, entries) ==
    IF entries = << >> THEN << >>
    ELSE LET entry == Head(entries)
             rest == ScanEntries_AnyDirectory(f, targetDir, Tail(entries))
         IN IF entry.kind = "dir"
            THEN <<PathJoin(targetDir, <<entry.name>>)>> \o rest
            ELSE rest

\* the multi-package loop over the directory entries
RECURSIVE ScanEntries(_, _, _)
ScanEntries(f, targetDir, entries) ==
    IF entries = << >> THEN << >>
    ELSE LET entry == Head(entries)
             rest == ScanEntries(f, targetDir, Tail(entries))
         IN IF entry.kind = "dir"
               /\ Access(f, PathJoin(targetDir, <<entry.name, ManifestName>>))
            THEN <<PathJoin(targetDir, <<entry.name>>)>> \o rest
            ELSE rest

\* the resolver without single-package mode: it always scans the subdirectories
FindPackageDirectories_ScanOnly(f, packagesDir) ==
    LET targetDir == IF packagesDir = << >> \/ packagesDir = <<".">>
                     THEN <<".">> ELSE packagesDir
    IN IF ~IsDirectory(f, targetDir)
       THEN [thrown |-> TRUE, dirs |-> << >>]
       ELSE [thrown |-> FALSE,
             dirs |-> ScanEntries(f, targetDir, Readdir(f, targetDir))]

\* the resolver looking for the root manifest in the working directory
FindPackageDirectories_CwdManifest(f, packagesDir) ==
    LET targetDir == IF packagesDir = << >> \/ packagesDir = <<".">>
                     THEN <<".">> ELSE packagesDir
    IN IF Access(f, PathJoin(<<".">>, <<ManifestName>>))
       THEN [thrown |-> FALSE, dirs |-> <<targetDir>>]
       ELSE IF ~IsDirectory(f, targetDir)
       THEN [thrown |-> TRUE, dirs |-> << >>]
       ELSE [thrown |-> FALSE,
             dirs |-> ScanEntries(f, targetDir, Readdir(f, targetDir))]

\* the resolver without the normalisation of '' and '.'
FindPackageDirectories_NoNormalize(f, packagesDir) ==
    LET targetDir == packagesDir
    IN IF Access(f, PathJoin(targetDir, <<ManifestName>>))
       THEN [thrown |-> FALSE, dirs |-> <<targetDir>>]
       ELSE IF ~IsDirectory(f, targetDir)
       THEN [thrown |-> TRUE, dirs |-> << >>]
       ELSE [thrown |-> FALSE,
             dirs |-> ScanEntries(f, targetDir, Readdir(f, targetDir))]

FindPackageDirectories(f, packagesDir) ==
    LET targetDir == IF packagesDir = << >> \/ packagesDir = <<".">>
                     THEN <<".">> ELSE packagesDir
    IN IF Access(f, PathJoin(targetDir, <<ManifestName>>))
       THEN [thrown |-> FALSE, dirs |-> <<targetDir>>]
       ELSE IF ~IsDirectory(f, targetDir)
       THEN [thrown |-> TRUE, dirs |-> << >>]
       ELSE [thrown |-> FALSE,
             dirs |-> ScanEntries(f, targetDir, Readdir(f, targetDir))]

(***************************************************************************)
(* Manifest values                                                         *)
(*                                                                         *)
(* A parsed field is [k, s]: k = "undef" for a field the document does not *)
(* have, k = "str" for a string whose characters are s, k = "num" for a    *)
(* YAML number whose decimal form is s, k = "null" for a YAML null.        *)
(***************************************************************************)
Undef == [k |-> "undef", s |-> << >>]
Str(chars) == [k |-> "str", s |-> chars]
Num(chars) == [k |-> "num", s |-> chars]
Null == [k |-> "null", s |-> << >>]

\* JavaScript !value
Falsy(v) ==
    \/ v.k \in {"undef", "null"}
    \/ (v.k = "str" /\ v.s = << >>)
    \/ (v.k = "num" /\ v.s = <<"0">>)

\* `${value}` in a template string
Interpolate(v) ==
    IF v.k = "undef" THEN <<"u", "n", "d", "e", "f", "i", "n", "e", "d">>
    ELSE IF v.k = "null" THEN <<"n", "u", "l", "l">>
    ELSE v.s

Manifest(pkgName, version, cmds, metadata) ==
    [pkgName |-> pkgName, version |-> version, cmds |-> cmds, metadata |-> metadata]

NoCmds == [k |-> "undef", items |-> << >>]
Cmds(items) == [k |-> "list", items |-> items]
\* an entry of cmds: an object (k = "obj") or a YAML null (k = "null")
Command(name, type, executable) ==
    [k |-> "obj", name |-> name, type |-> type, executable |-> executable]
Cmd(name, type) == Command(name, type, Undef)
NullCmd == [k |-> "null", name |-> Undef, type |-> Undef, executable |-> Undef]

NoMetadata == [k |-> "undef", author |-> Undef, license |-> Undef, repository |-> Undef]
Metadata(author, license, repository) ==
    [k |-> "obj", author |-> author, license |-> license, repository |-> repository]

\* thrown: validateManifest raised instead of returning a ValidationResult
NotValidated == [thrown |-> FALSE, valid |-> FALSE, errors |-> << >>, warnings |-> << >>]

Digits == {"0", "1", "2", "3", "4", "5", "6", "7", "8", "9"}
LowerLetters == {"a", "b", "c", "d", "e", "f", "g", "h", "i", "j", "k", "l", "m",
                 "n", "o", "p", "q", "r", "s", "t", "u", "v", "w", "x", "y", "z"}
UpperLetters == {"A", "B", "C", "D", "E", "F", "G", "H", "I", "J", "K", "L", "M",
                 "N", "O", "P", "Q", "R", "S", "T", "U", "V", "W", "X", "Y", "Z"}

\* String.prototype.startsWith
StartsWith(s, c) == s # << >> /\ s[1] = c

\* index of the first occurrence of c in s, 0 when there is none
FirstIndex(s, c) ==
    LET at == {i \in DOMAIN s : s[i] = c}
    IN IF at = {} THEN 0 ELSE CHOOSE i \in at : \A j \in at : i <= j

\* String.prototype.split on a one-character separator
RECURSIVE Split(_, _)
Split(s, sep) ==
    LET i == FirstIndex(s, sep)
    IN IF i = 0 THEN <<s>>
       ELSE <<SubSeq(s, 1, i - 1)>> \o Split(SubSeq(s, i + 1, Len(s)), sep)

(***************************************************************************)
(* semver.valid (node-semver, strict mode): the FULL pattern               *)
(*   v?MAJOR.MINOR.PATCH(-PRERELEASE)?(+BUILD)?                            *)
(***************************************************************************)
\* 0|[1-9]\d*
NumericIdentifier(s) ==
    /\ s # << >>
    /\ \A i \in DOMAIN s : s[i] \in Digits
    /\ (Len(s) = 1 \/ s[1] # "0")

\* \d*[a-zA-Z-][a-zA-Z0-9-]*
NonNumericIdentifier(s) ==
    /\ \A i \in DOMAIN s : s[i] \in Digits \cup LowerLetters \cup UpperLetters \cup {"-"}
    /\ \E i \in DOMAIN s : s[i] \notin Digits

\* [0-9A-Za-z-]+
BuildIdentifier(s) ==
    /\ s # << >>
    /\ \A i \in DOMAIN s : s[i] \in Digits \cup LowerLetters \cup UpperLetters \cup {"-"}

SemverValid(version) ==
    LET plain == IF StartsWith(version, "v") THEN Tail(version) ELSE version
        plus == FirstIndex(plain, "+")
        core == IF plus = 0 THEN plain ELSE SubSeq(plain, 1, plus - 1)
        build == IF plus = 0 THEN << >> ELSE SubSeq(plain, plus + 1, Len(plain))
        dash == FirstIndex(core, "-")
        main == IF dash = 0 THEN core ELSE SubSeq(core, 1, dash - 1)
        pre == IF dash = 0 THEN << >> ELSE SubSeq(core, dash + 1, Len(core))
        mainIds == Split(main, ".")
        preIds == Split(pre, ".")
        buildIds == Split(build, ".")
    IN /\ Len(mainIds) = 3
       /\ \A i \in DOMAIN mainIds : NumericIdentifier(mainIds[i])
       /\ dash # 0 =>
            \A i \in DOMAIN preIds :
                NumericIdentifier(preIds[i]) \/ NonNumericIdentifier(preIds[i])
       /\ plus # 0 => \A i \in DOMAIN buildIds : BuildIdentifier(buildIds[i])

(***************************************************************************)
(* validateManifest                                                        *)
(*                                                                         *)
(* An error is [rule, index, name, value]: the message template that was   *)
(* pushed and the values interpolated into it (index -1, name and value    *)
(* << >> where the template has no such slot).                             *)
(***************************************************************************)
Error(rule, index, name, value) ==
    [rule |-> rule, index |-> index, name |-> name, value |-> value]

\* the pattern without the hyphen in its character class
CommandNamePattern_NoHyphen(name) ==
    /\ name # << >>
    /\ \A i \in DOMAIN name : name[i] \in LowerLetters \cup Digits

\* /^[a-z0-9-]+$/.test(name)
CommandNamePattern(name) ==
    /\ name # << >>
    /\ \A i \in DOMAIN name : name[i] \in LowerLetters \cup Digits \cup {"-"}

\* the set of types with 'starlark' in the place of 'group'
CommandTypes_WithStarlark == {<<"e", "x", "e", "c", "u", "t", "a", "b", "l", "e">>,
                              <<"a", "l", "i", "a", "s">>,
                              <<"s", "t", "a", "r", "l", "a", "r", "k">>}

CommandTypes == {<<"e", "x", "e", "c", "u", "t", "a", "b", "l", "e">>,
                 <<"a", "l", "i", "a", "s">>,
                 <<"g", "r", "o", "u", "p">>}

PkgNameErrors(m) ==
    IF Falsy(m.pkgName) THEN <<Error("Missing required field: pkgName", -1, << >>, << >>)>>
    ELSE << >>

\* the version checks as independent ifs instead of an else-if chain
VersionErrors_Independent(m) ==
    IF Falsy(m.version)
    THEN <<Error("Missing required field: version", -1, << >>, << >>)>>
    ELSE (IF StartsWith(m.version.s, "v")
          THEN <<Error("Invalid version format: remove 'v' prefix", -1, << >>, m.version.s)>>
          ELSE << >>)
         \o
         (IF ~SemverValid(m.version.s)
          THEN <<Error("Invalid version format: must be valid semver", -1, << >>,
                       m.version.s)>>
          ELSE << >>)

VersionErrors(m) ==
    IF Falsy(m.version)
    THEN <<Error("Missing required field: version", -1, << >>, << >>)>>
    ELSE IF StartsWith(m.version.s, "v")
    THEN <<Error("Invalid version format: remove 'v' prefix", -1, << >>, m.version.s)>>
    ELSE IF ~SemverValid(m.version.s)
    THEN <<Error("Invalid version format: must be valid semver", -1, << >>, m.version.s)>>
    ELSE << >>

\* the cmds check without its test of the length
CmdsErrors_UndefinedOnly(m) ==
    IF m.cmds.k = "undef"
    THEN <<Error("Missing required field: cmds", -1, << >>, << >>)>>
    ELSE << >>

CmdsErrors(m) ==
    IF m.cmds.k = "undef" \/ Len(m.cmds.items) = 0
    THEN <<Error("Missing required field: cmds", -1, << >>, << >>)>>
    ELSE << >>

\* the body of the loop over the commands, for the command at 0-based index i
CommandErrors(cmd, i) ==
    (IF Falsy(cmd.name)
     THEN <<Error("Command at index is missing 'name' field", i, << >>, << >>)>>
     ELSE << >>)
    \o
    (IF Falsy(cmd.type)
     THEN <<Error("Command is missing 'type' field", -1, Interpolate(cmd.name), << >>)>>
     ELSE IF cmd.type.s \notin CommandTypes
     THEN <<Error("Command has invalid type", -1, Interpolate(cmd.name), cmd.type.s)>>
     ELSE << >>)
    \o
    (IF ~Falsy(cmd.name) /\ ~CommandNamePattern(cmd.name.s)
     THEN <<Error("Command name contains invalid characters", -1, cmd.name.s, << >>)>>
     ELSE << >>)

RECURSIVE CommandLoop(_, _)
\* errors of the commands from 0-based index i on
CommandLoop(cmds, i) ==
    IF i >= Len(cmds) THEN << >>
    ELSE CommandErrors(cmds[i + 1], i) \o CommandLoop(cmds, i + 1)

MetadataWarnings(m) ==
    (IF m.metadata.k = "undef" \/ Falsy(m.metadata.author)
     THEN <<"Missing recommended field: _metadata.author">> ELSE << >>)
    \o
    (IF m.metadata.k = "undef" \/ Falsy(m.metadata.license)
     THEN <<"Missing recommended field: _metadata.license">> ELSE << >>)
    \o
    (IF m.metadata.k = "undef" \/ Falsy(m.metadata.repository)
     THEN <<"Missing recommended field: _metadata.repository">> ELSE << >>)

\* a fail-fast validator: it reports the first error only
ValidateManifest_FailFast(m) ==
    LET errors == PkgNameErrors(m) \o VersionErrors(m) \o CmdsErrors(m)
                  \o (IF m.cmds.k = "undef" THEN << >> ELSE CommandLoop(m.cmds.items, 0))
        first == IF errors = << >> THEN << >> ELSE <<Head(errors)>>
    IN [thrown |-> FALSE, valid |-> Len(first) = 0, errors |-> first,
        warnings |-> MetadataWarnings(m)]

\* a validator for which a warning makes the manifest invalid
ValidateManifest_WarningsInvalidate(m) ==
    LET errors == PkgNameErrors(m) \o VersionErrors(m) \o CmdsErrors(m)
                  \o (IF m.cmds.k = "undef" THEN << >> ELSE CommandLoop(m.cmds.items, 0))
    IN [thrown |-> FALSE, valid |-> Len(errors) = 0 /\ Len(MetadataWarnings(m)) = 0,
        errors |-> errors, warnings |-> MetadataWarnings(m)]

\* manifest.version.startsWith on a truthy version that is not a string
VersionThrows(m) == ~Falsy(m.version) /\ m.version.k # "str"

\* cmd.name on an entry of cmds that is null
CommandThrows(m) ==
    m.cmds.k = "list" /\ \E i \in DOMAIN m.cmds.items : m.cmds.items[i].k = "null"

ValidateManifest(m) ==
    LET errors == PkgNameErrors(m) \o VersionErrors(m) \o CmdsErrors(m)
                  \o (IF m.cmds.k = "undef" THEN << >> ELSE CommandLoop(m.cmds.items, 0))
    IN IF VersionThrows(m) \/ CommandThrows(m)
       THEN [NotValidated EXCEPT !.thrown = TRUE]
       ELSE [thrown |-> FALSE, valid |-> Len(errors) = 0, errors |-> errors,
             warnings |-> MetadataWarnings(m)]

(***************************************************************************)
(* readManifest                                                            *)
(*                                                                         *)
(* The data of a manifest.mf file names its document; Document gives what  *)
(* YAML.parse makes of it: a syntax error, null (an empty document) or a   *)
(* manifest object.                                                        *)
(***************************************************************************)
Executable == <<"e", "x", "e", "c", "u", "t", "a", "b", "l", "e">>
Starlark == <<"s", "t", "a", "r", "l", "a", "r", "k">>
V100 == <<"1", ".", "0", ".", "0">>

GoodManifest ==
    Manifest(Str(<<"x">>), Str(V100), Cmds(<<Cmd(Str(<<"r", "u", "n">>), Str(Executable))>>),
             NoMetadata)

\* a second valid package
V200 == <<"2", ".", "0", ".", "0">>
SecondManifest ==
    Manifest(Str(<<"y">>), Str(V200), Cmds(<<Cmd(Str(<<"r", "u", "n">>), Str(Executable))>>),
             NoMetadata)

\* 'v1.0.0' and a command of type 'starlark': two errors, two warnings
BadManifest ==
    Manifest(Str(<<"y">>), Str(<<"v">> \o V100),
             Cmds(<<Cmd(Str(<<"r", "u", "n">>), Str(Starlark))>>),
             Metadata(Str(<<"m", "e">>), Undef, Undef))

\* no cmds field at all
NoCmdsManifest == Manifest(Str(<<"z">>), Str(V100), NoCmds, NoMetadata)

\* `version: 1.0`, which YAML parses as the number 1
NumVersionManifest ==
    Manifest(Str(<<"w">>), Num(<<"1">>),
             Cmds(<<Cmd(Str(<<"r", "u", "n">>), Str(Executable))>>), NoMetadata)

DocumentNames == {"good", "bad", "nocmds", "numver", "empty", "garbage"}

Document(data) ==
    CASE data = "good" -> [parse |-> "object", value |-> GoodManifest]
      [] data = "second" -> [parse |-> "object", value |-> SecondManifest]
      [] data = "bad" -> [parse |-> "object", value |-> BadManifest]
      [] data = "nocmds" -> [parse |-> "object", value |-> NoCmdsManifest]
      [] data = "numver" -> [parse |-> "object", value |-> NumVersionManifest]
      [] data = "empty" -> [parse |-> "null", value |-> GoodManifest]
      [] OTHER -> [parse |-> "error", value |-> GoodManifest]

ReadManifest(f, packageDir) ==
    LET entry == Lookup(f, PathJoin(packageDir, <<ManifestName>>))
    IN IF entry.kind # "file" \/ Document(entry.data).parse # "object"
       THEN [thrown |-> TRUE, manifest |-> GoodManifest]
       ELSE [thrown |-> FALSE, manifest |-> Document(entry.data).value]

(***************************************************************************)
(* validatePackages                                                        *)
(***************************************************************************)
AutoDetect == <<"(auto-detect)">>

NotValidatedPackages ==
    [thrown |-> FALSE, error |-> "", displayDir |-> << >>, location |-> << >>,
     validPackages |-> << >>, invalidPackages |-> << >>,
     totalErrors |-> 0, totalWarnings |-> 0]

\* one iteration of the loop over the package directories: acc is the tally so far
ValidateOne(f, acc, packageDir) ==
    LET packageName == Basename(packageDir)
        read == ReadManifest(f, packageDir)
        result == ValidateManifest(read.manifest)
    IN IF read.thrown \/ read.manifest.cmds.k = "undef" \/ result.thrown
       THEN \* readManifest, manifest.cmds.length or validateManifest threw: the
            \* catch block
            [acc EXCEPT !.invalidPackages = Append(@, packageName),
                        !.totalErrors = @ + 1]
       ELSE IF Len(result.errors) > 0
       THEN [acc EXCEPT !.invalidPackages = Append(@, packageName),
                        !.totalErrors = @ + Len(result.errors),
                        !.totalWarnings = @ + Len(result.warnings)]
       ELSE [acc EXCEPT !.validPackages = Append(@, packageName),
                        !.totalWarnings = @ + Len(result.warnings)]

RECURSIVE ValidateLoop_StopAtFailure(_, _, _)
\* a loop that ends at the first package directory found invalid
ValidateLoop_StopAtFailure(f, acc, dirs) ==
    IF dirs = << >> THEN acc
    ELSE LET next == ValidateOne(f, acc, Head(dirs))
         IN IF Len(next.invalidPackages) > Len(acc.invalidPackages) THEN next
            ELSE ValidateLoop_StopAtFailure(f, next, Tail(dirs))

RECURSIVE ValidateLoop(_, _, _)
ValidateLoop(f, acc, dirs) ==
    IF dirs = << >> THEN acc
    ELSE ValidateLoop(f, ValidateOne(f, acc, Head(dirs)), Tail(dirs))

\* a pass for which an empty list of package directories is nothing to report
ValidatePackages_EmptyIsValid(f, dir) ==
    LET found == FindPackageDirectories(f, dir)
    IN IF found.thrown
       THEN [NotValidatedPackages EXCEPT
                !.thrown = TRUE, !.error = "Failed to read packages directory"]
       ELSE ValidateLoop(f, NotValidatedPackages, found.dirs)

ValidatePackages(f, dir) ==
    LET auto == dir = << >> \/ dir = <<".">>
        found == FindPackageDirectories(f, dir)
        start == [NotValidatedPackages EXCEPT
                      !.displayDir = IF auto THEN AutoDetect ELSE dir]
    IN IF found.thrown
       THEN [start EXCEPT !.thrown = TRUE, !.error = "Failed to read packages directory"]
       ELSE IF Len(found.dirs) = 0
       THEN [start EXCEPT !.thrown = TRUE, !.error = "No packages found",
                          !.location = IF auto
                                       THEN <<"current directory or subdirectories">>
                                       ELSE dir]
       ELSE ValidateLoop(f, start, found.dirs)

(***************************************************************************)
(* createPackages                                                          *)
(***************************************************************************)
OutputDirectory == <<"build", "packages">>

NotPackaged ==
    [thrown |-> FALSE, error |-> "", displayDir |-> << >>, location |-> << >>,
     packages |-> << >>, archives |-> << >>]

\* `${manifest.pkgName}-${manifest.version}.pkg`
ArchiveName(m) == Interpolate(m.pkgName) \o <<"-">> \o Interpolate(m.version)
                  \o <<".", "p", "k", "g">>

RECURSIVE PackageLoop(_, _, _)
\* the loop over the package directories: a manifest that cannot be read is
\* rethrown and ends the pass, the archives written before it stay on disk
PackageLoop(f, acc, dirs) ==
    IF dirs = << >> THEN acc
    ELSE LET read == ReadManifest(f, Head(dirs))
             archiveName == ArchiveName(read.manifest)
         IN IF read.thrown
            THEN [acc EXCEPT !.thrown = TRUE, !.error = "Failed to read manifest",
                             !.packages = << >>]
            ELSE PackageLoop(f,
                     [acc EXCEPT
                         !.archives = Append(@, archiveName),
                         !.packages = Append(@,
                             [name |-> read.manifest.pkgName,
                              version |-> read.manifest.version,
                              archivePath |-> <<OutputDirectory, archiveName>>,
                              sourceDirectory |-> Head(dirs)])],
                     Tail(dirs))

\* fs.mkdir(outputDirectory, {recursive: true}) seen from the working directory
MkdirOutput(f) ==
    IF Access(f, <<".", OutputDirectory[1]>>) THEN f
    ELSE [f EXCEPT ![<< >>] =
             Append(@, [name |-> OutputDirectory[1], kind |-> "dir", data |-> "none"])]

CreatePackages(f, dir) ==
    LET auto == dir = << >> \/ dir = <<".">>
        found == FindPackageDirectories(MkdirOutput(f), dir)
        start == [NotPackaged EXCEPT !.displayDir = IF auto THEN AutoDetect ELSE dir]
    IN IF found.thrown
       THEN [start EXCEPT !.thrown = TRUE, !.error = "Failed to read packages directory"]
       ELSE IF Len(found.dirs) = 0
       THEN [start EXCEPT !.thrown = TRUE, !.error = "No packages found",
                          !.location = IF auto
                                       THEN <<"current directory or subdirectories">>
                                       ELSE dir]
       ELSE PackageLoop(MkdirOutput(f), start, found.dirs)

(***************************************************************************)
(* What outlives a run                                                     *)
(*                                                                         *)
(* outputFiles is the listing of build/packages, registry the set of       *)
(* <<reference, tag>> the OCI registry holds (the reference without its    *)
(* registry/namespace prefix, which is the same for every package of a     *)
(* run), tags the git tags of the repository and releases the tags that    *)
(* have a GitHub release.  An event is [op, arg]: an effect a run had.     *)
(***************************************************************************)
EmptyWorld == [outputFiles |-> << >>, registry |-> {}, tags |-> {}, releases |-> {}]

Event(op, arg) == [op |-> op, arg |-> arg]

DotPkg == <<".", "p", "k", "g">>

\* String.prototype.endsWith
EndsWith(s, suffix) ==
    Len(s) >= Len(suffix) /\ SubSeq(s, Len(s) - Len(suffix) + 1, Len(s)) = suffix

LowerAlphabet == <<"a", "b", "c", "d", "e", "f", "g", "h", "i", "j", "k", "l", "m",
                   "n", "o", "p", "q", "r", "s", "t", "u", "v", "w", "x", "y", "z">>
UpperAlphabet == <<"A", "B", "C", "D", "E", "F", "G", "H", "I", "J", "K", "L", "M",
                   "N", "O", "P", "Q", "R", "S", "T", "U", "V", "W", "X", "Y", "Z">>

\* name.toLowerCase().replace(/[^a-z0-9-]/g, '-')
SanitizeName(name) ==
    [i \in DOMAIN name |->
        LET c == name[i]
            lower == IF c \in UpperLetters
                     THEN LowerAlphabet[CHOOSE j \in DOMAIN UpperAlphabet : UpperAlphabet[j] = c]
                     ELSE c
        IN IF lower \in LowerLetters \cup Digits \cup {"-"} THEN lower ELSE "-"]

\* a prefix of t matches \d+\.\d+\.\d+
StartsWithThreeNumbers(t) ==
    \E i, j \in DOMAIN t :
        /\ 1 < i /\ i + 1 < j /\ j < Len(t)
        /\ t[i] = "." /\ t[j] = "."
        /\ \A k \in 1..(j + 1) : k \in {i, j} \/ t[k] \in Digits

\* what follows position p of a file name, up to its '.pkg'
VersionFrom(pkgFile, p) == SubSeq(pkgFile, p + 1, Len(pkgFile) - Len(DotPkg))

\* the hyphens of a file name at which /^(.+)-(\d+\.\d+\.\d+.*?)\.pkg$/ can match
MatchPoints(pkgFile) ==
    {p \in DOMAIN pkgFile :
        /\ p > 1 /\ pkgFile[p] = "-"
        /\ EndsWith(pkgFile, DotPkg)
        /\ StartsWithThreeNumbers(VersionFrom(pkgFile, p))}

\* the groups of the match: the greedy first group ends at the last such hyphen
Captures(pkgFile, at) ==
    IF at = {} THEN [matched |-> FALSE, pkgName |-> << >>, version |-> << >>]
    ELSE [matched |-> TRUE,
          pkgName |-> SubSeq(pkgFile, 1, (CHOOSE p \in at : \A q \in at : q <= p) - 1),
          version |-> VersionFrom(pkgFile, CHOOSE p \in at : \A q \in at : q <= p)]

\* pkgFile.match(/^(.+)-(\d+\.\d+\.\d+.*?)\.pkg$/)
PkgFileMatch(pkgFile) == Captures(pkgFile, MatchPoints(pkgFile))

\* filename.replace('.pkg', ''): the first occurrence is removed
ArchiveBasename(filename) ==
    LET at == {i \in DOMAIN filename :
                  i + 3 <= Len(filename) /\ SubSeq(filename, i, i + 3) = DotPkg}
        first == CHOOSE i \in at : \A j \in at : i <= j
    IN IF at = {} THEN filename
       ELSE SubSeq(filename, 1, first - 1) \o SubSeq(filename, first + 4, Len(filename))

\* the hyphens of a base name at which /^(.+)-(\d+\.\d+\.\d+.*)$/ can match
ParsePoints(basename) ==
    {p \in DOMAIN basename :
        /\ p > 1 /\ basename[p] = "-"
        /\ StartsWithThreeNumbers(SubSeq(basename, p + 1, Len(basename)))}

NoArchiveName == [matched |-> FALSE, name |-> << >>, version |-> << >>]

\* parsePackageArchiveName: the greedy first group ends at the last such hyphen
ParsePackageArchiveName(filename) ==
    LET basename == ArchiveBasename(filename)
        at == ParsePoints(basename)
        last == CHOOSE p \in at : \A q \in at : q <= p
    IN IF at = {} THEN NoArchiveName
       ELSE [matched |-> TRUE, name |-> SubSeq(basename, 1, last - 1),
             version |-> SubSeq(basename, last + 1, Len(basename))]

\* no archive name parsed yet
NotParsed == [file |-> << >>, parsed |-> NoArchiveName, pushed |-> Captures(<< >>, {})]

(***************************************************************************)
(* pushToOCI                                                               *)
(***************************************************************************)
Latest == <<"l", "a", "t", "e", "s", "t">>

NotPushed(w) ==
    [thrown |-> FALSE, error |-> "", registry |-> w.registry, events |-> << >>,
     pushedCount |-> 0, skippedCount |-> 0]

\* a version that is in the registry is skipped unless the push is forced
PushVersion(acc, ociRef, version, forceRelease) ==
    IF <<ociRef, version>> \in acc.registry /\ ~forceRelease
    THEN [acc EXCEPT !.skippedCount = @ + 1]
    ELSE [acc EXCEPT
             !.registry = @ \cup {<<ociRef, version>>, <<ociRef, Latest>>},
             !.events = @ \o <<Event("oras push", <<ociRef, version>>),
                               Event("oras tag", <<ociRef, Latest>>)>>,
             !.pushedCount = @ + 1]

\* one iteration of the loop over the .pkg files
PushOne(acc, pkgFile, forceRelease) ==
    IF ~PkgFileMatch(pkgFile).matched
    THEN [acc EXCEPT !.skippedCount = @ + 1]
    ELSE PushVersion(acc, SanitizeName(PkgFileMatch(pkgFile).pkgName),
                     PkgFileMatch(pkgFile).version, forceRelease)

RECURSIVE PushLoop(_, _, _)
PushLoop(acc, pkgFiles, forceRelease) ==
    IF pkgFiles = << >> THEN acc
    ELSE PushLoop(PushOne(acc, Head(pkgFiles), forceRelease), Tail(pkgFiles), forceRelease)

IsPkgFile(file) == EndsWith(file, DotPkg)

PushSummary_NothingPushedThrows(acc) ==
    IF acc.pushedCount = 0
    THEN [acc EXCEPT !.events = Append(@, Event("oras logout", << >>)),
                     !.thrown = TRUE, !.error = "No packages were processed"]
    ELSE [acc EXCEPT !.events = Append(@, Event("oras logout", << >>))]

\* the logout and the summary that follow the loop
PushSummary(acc) ==
    IF acc.pushedCount = 0 /\ acc.skippedCount = 0
    THEN [acc EXCEPT !.events = Append(@, Event("oras logout", << >>)),
                     !.thrown = TRUE, !.error = "No packages were processed"]
    ELSE [acc EXCEPT !.events = Append(@, Event("oras logout", << >>))]

PushToOCI(w, forceRelease) ==
    IF Len(SelectSeq(w.outputFiles, IsPkgFile)) = 0
    THEN [NotPushed(w) EXCEPT !.events = <<Event("oras login", << >>)>>,
                              !.thrown = TRUE, !.error = "No .pkg files found"]
    ELSE PushSummary(PushLoop([NotPushed(w) EXCEPT
                                  !.events = <<Event("oras login", << >>)>>],
                              SelectSeq(w.outputFiles, IsPkgFile), forceRelease))

(***************************************************************************)
(* createPluginReleases                                                    *)
(***************************************************************************)
\* `package_${pkg.name}_${pkg.version}`
TagName(pkg) ==
    <<"p", "a", "c", "k", "a", "g", "e", "_">> \o Interpolate(pkg.name) \o <<"_">>
    \o Interpolate(pkg.version)

NotReleased(w) ==
    [thrown |-> FALSE, error |-> "", tags |-> w.tags, releases |-> w.releases,
     events |-> << >>, createdReleases |-> << >>, skippedReleases |-> << >>,
     deletedReleases |-> << >>]

\* a call to git or to the GitHub API that fails: the op-th call made for the
\* at-th package of the run throws
NoFault == [at |-> 0, op |-> "none"]
Faults ==
    {NoFault} \cup [at : 1..2, op : {"push tag", "create release", "upload asset"}]

\* deleteExistingRelease: the release when there is one, then the tag
DeleteExistingRelease(acc, tagName) ==
    (IF tagName \in acc.releases THEN <<"delete release">> ELSE << >>)
    \o <<"delete tag">>

\* the calls one iteration makes when none of them fails, in order
ReleaseSteps_CreateFirst(acc, tagName, forceRelease) ==
    IF tagName \in acc.tags /\ ~forceRelease THEN << >>
    ELSE <<"push tag", "create release", "upload asset">>
         \o (IF tagName \in acc.tags THEN DeleteExistingRelease(acc, tagName) ELSE << >>)

ReleaseSteps(acc, tagName, forceRelease) ==
    IF tagName \in acc.tags /\ ~forceRelease THEN << >>
    ELSE (IF tagName \in acc.tags THEN DeleteExistingRelease(acc, tagName) ELSE << >>)
         \o <<"push tag", "create release", "upload asset">>

\* the calls that return before the failing one
Before(steps, faultOp) ==
    IF \E i \in DOMAIN steps : steps[i] = faultOp
    THEN SubSeq(steps, 1, (CHOOSE i \in DOMAIN steps : steps[i] = faultOp) - 1)
    ELSE steps

\* what the calls that returned leave behind
Released(acc, tagName, skipped, done, thrown, faultOp) ==
    [acc EXCEPT
        !.thrown = thrown,
        !.error = IF thrown THEN faultOp ELSE @,
        !.tags = IF \E i \in DOMAIN done : done[i] = "push tag" THEN @ \cup {tagName}
                 ELSE IF \E i \in DOMAIN done : done[i] = "delete tag"
                 THEN @ \ {tagName} ELSE @,
        !.releases = IF \E i \in DOMAIN done : done[i] = "create release"
                     THEN @ \cup {tagName}
                     ELSE IF \E i \in DOMAIN done : done[i] = "delete release"
                     THEN @ \ {tagName} ELSE @,
        !.events = @ \o [i \in DOMAIN done |-> Event(done[i], tagName)],
        !.skippedReleases = IF skipped THEN Append(@, tagName) ELSE @,
        !.deletedReleases = IF \E i \in DOMAIN done : done[i] = "delete tag"
                            THEN Append(@, tagName) ELSE @,
        !.createdReleases = IF \E i \in DOMAIN done : done[i] = "upload asset"
                            THEN Append(@, tagName) ELSE @]

\* one iteration of the loop over the packages
ReleaseOne(acc, pkg, forceRelease, faultOp) ==
    Released(acc, TagName(pkg),
             ReleaseSteps(acc, TagName(pkg), forceRelease) = << >>,
             Before(ReleaseSteps(acc, TagName(pkg), forceRelease), faultOp),
             Before(ReleaseSteps(acc, TagName(pkg), forceRelease), faultOp)
                 # ReleaseSteps(acc, TagName(pkg), forceRelease),
             faultOp)

RECURSIVE ReleaseLoop(_, _, _, _)
ReleaseLoop(acc, packages, forceRelease, fault) ==
    IF packages = << >> \/ acc.thrown THEN acc
    ELSE ReleaseLoop(ReleaseOne(acc, Head(packages), forceRelease,
                                IF fault.at = 1 THEN fault.op ELSE "none"),
                     Tail(packages), forceRelease, [fault EXCEPT !.at = @ - 1])

CreatePluginReleases(w, packages, repository, forceRelease, fault) ==
    LET parts == Split(repository, "/")
        owner == parts[1]
        repo == IF Len(parts) > 1 THEN parts[2] ELSE << >>
    IN IF owner = << >> \/ repo = << >>
       THEN [NotReleased(w) EXCEPT !.thrown = TRUE, !.error = "Invalid repository format"]
       ELSE ReleaseLoop(NotReleased(w), packages, forceRelease, fault)

(***************************************************************************)
(* run: the inputs of the action and the record of a run                   *)
(***************************************************************************)
\* core.getInput(name) || fallback
OrDefault(raw, fallback) == IF raw = "" THEN fallback ELSE raw

NoInputs ==
    [validateOnly |-> "", packageFormat |-> "", ociRegistry |-> "", ociUsername |-> "",
     ociToken |-> "", githubToken |-> "", githubRepository |-> << >>, forceRelease |-> ""]

\* a run that does not look at validate-only
ValidateOnly_Ignored(inputs) == FALSE

ValidateOnly(inputs) == inputs.validateOnly = "true"

PackageFormat(inputs) == OrDefault(inputs.packageFormat, "zip")

OciRegistry(inputs) == OrDefault(inputs.ociRegistry, "ghcr.io")

ForceRelease(inputs) == inputs.forceRelease = "true"

NeedsZipPackages_UnlessOci(inputs) == PackageFormat(inputs) # "oci"

NeedsZipPackages(inputs) == PackageFormat(inputs) \in {"zip", "both"}

NeedsOciPush(inputs) == PackageFormat(inputs) \in {"oci", "both"} /\ OciRegistry(inputs) # ""

\* dirs are the directories validatePackages resolved and next the 1-based
\* index of the one its loop is at; failed and message are core.setFailed,
\* completed the final 'All steps completed successfully'; events are the
\* effects of the run, in order
NotRun ==
    [inputs |-> NoInputs, dirs |-> << >>, next |-> 1, failed |-> FALSE, message |-> "",
     completed |-> FALSE, events |-> << >>]

\* the catch block of run
SetFailed(r, message) == [r EXCEPT !.failed = TRUE, !.message = message]

\* a loop over the package directories that a first invalid one ends
LoopDone_AtFirstInvalid(r, result) ==
    r.next > Len(r.dirs) \/ Len(result.invalidPackages) > 0

\* the for loop of validatePackages has gone through every directory
LoopDone(r, result) == r.next > Len(r.dirs)

(***************************************************************************)
(* State machine: the host lays out the tree, then one call is made        *)
(***************************************************************************)
Hints == {<< >>, <<".">>, <<"packages">>}

NotCalled == [thrown |-> FALSE, dirs |-> << >>]

InitFs ==
    /\ fs = [d \in DirPaths |-> << >>]
    /\ pc = "setup"
    /\ packagesDirectory = << >>
    /\ packageDirs = NotCalled
    /\ validateResult = NotValidatedPackages
    /\ packageResult = NotPackaged
    /\ manifest = Manifest(Undef, Undef, NoCmds, NoMetadata)
    /\ validation = NotValidated
    /\ run = NotRun
    /\ world = EmptyWorld
    /\ releaseResult = NotReleased(EmptyWorld)
    /\ archive = NotParsed

\* the host creates a directory
Mkdir(d, name) ==
    /\ pc = "setup"
    /\ IsDirectory(fs, <<".">> \o d)
    /\ <<name, "dir">> \in Shape[d]
    /\ ~Access(fs, <<".">> \o d \o <<name>>)
    /\ EntryCount(fs) < MaxEntries
    /\ fs' = [fs EXCEPT ![d] = Append(@, [name |-> name, kind |-> "dir", data |-> "none"])]
    /\ UNCHANGED <<pc, packagesDirectory, packageDirs, validateResult, packageResult, mfVars, runVars>>

\* the host creates a file
WriteFile(d, name, data) ==
    /\ pc = "setup"
    /\ IsDirectory(fs, <<".">> \o d)
    /\ <<name, "file">> \in Shape[d]
    /\ ~Access(fs, <<".">> \o d \o <<name>>)
    /\ EntryCount(fs) < MaxEntries
    /\ fs' = [fs EXCEPT ![d] = Append(@, [name |-> name, kind |-> "file", data |-> data])]
    /\ UNCHANGED <<pc, packagesDirectory, packageDirs, validateResult, packageResult, mfVars, runVars>>

CallFindPackageDirectories(hint) ==
    /\ pc = "setup"
    /\ pc' = "find"
    /\ packagesDirectory' = hint
    /\ packageDirs' = FindPackageDirectories(fs, hint)
    /\ UNCHANGED <<fs, validateResult, packageResult, mfVars, runVars>>

CallValidatePackages(hint) ==
    /\ pc = "setup"
    /\ pc' = "validate"
    /\ packagesDirectory' = hint
    /\ validateResult' = ValidatePackages(fs, hint)
    /\ UNCHANGED <<fs, packageDirs, packageResult, mfVars, runVars>>

CallCreatePackages(hint) ==
    /\ pc = "setup"
    /\ pc' = "package"
    /\ packagesDirectory' = hint
    /\ packageResult' = CreatePackages(fs, hint)
    /\ fs' = MkdirOutput(fs)
    /\ UNCHANGED <<packageDirs, validateResult, mfVars, runVars>>

\* the resolver on trees of every shape, all manifests alike
NextFs ==
    \/ \E d \in DirPaths, name \in {"packages", "pa", "pb", "sub"} : Mkdir(d, name)
    \/ \E d \in DirPaths : WriteFile(d, ManifestName, "good")
    \/ \E d \in DirPaths, name \in {"packages", "pa", "pb"} : WriteFile(d, name, "none")
    \/ \E hint \in Hints : CallFindPackageDirectories(hint)

\* the passes on trees one level deep, the manifests holding every document
NextPasses ==
    \/ \E name \in {"packages", "pa"} : Mkdir(<< >>, name)
    \/ \E d \in {<< >>, <<"pa">>, <<"packages">>}, data \in DocumentNames :
           WriteFile(d, ManifestName, data)
    \/ WriteFile(<< >>, "pa", "none")
    \/ \E hint \in Hints : CallFindPackageDirectories(hint)
    \/ \E hint \in Hints : CallValidatePackages(hint)
    \/ \E hint \in Hints : CallCreatePackages(hint)

SpecFs == InitFs /\ [][NextFs]_vars

SpecPasses == InitFs /\ [][NextPasses]_vars

(***************************************************************************)
(* State machine: validateManifest applied to enumerated manifests         *)
(***************************************************************************)
SeqsUpTo(S, n) == UNION {[1..k -> S] : k \in 0..n}

Somebody == <<"m", "e">>

PkgNameInputs == {Undef, Str(<< >>), Str(<<"x">>)}

\* '1.0.0', '1.0.0-rc.1', 'v1.0.0', '1.0'
FewVersionInputs ==
    {Undef,
     Str(<<"1", ".", "0", ".", "0">>),
     Str(<<"1", ".", "0", ".", "0", "-", "r", "c", ".", "1">>),
     Str(<<"v", "1", ".", "0", ".", "0">>),
     Str(<<"1", ".", "0">>)}

\* the above and '', 'v1', 'vx', '1', 'x', '01.0.0', '1.0.0-', '1.0.0-01',
\* '1.0.0+b7', '1.0.0-rc.1+b7'
VersionInputs ==
    FewVersionInputs \cup
    {Str(<< >>),
     Str(<<"v", "1">>),
     Str(<<"v", "x">>),
     Str(<<"1">>),
     Str(<<"x">>),
     Str(<<"0", "1", ".", "0", ".", "0">>),
     Str(<<"1", ".", "0", ".", "0", "-">>),
     Str(<<"1", ".", "0", ".", "0", "-", "0", "1">>),
     Str(<<"1", ".", "0", ".", "0", "+", "b", "7">>),
     Str(<<"1", ".", "0", ".", "0", "-", "r", "c", ".", "1", "+", "b", "7">>)}

\* command names: none, 'a-1', 'A_b', '-a'
CmdNameInputs ==
    {Undef, Str(<<"a", "-", "1">>), Str(<<"A", "_", "b">>), Str(<<"-", "a">>)}

CmdTypeInputs ==
    {Undef, Str(Executable), Str(<<"a", "l", "i", "a", "s">>), Str(<<"g", "r", "o", "u", "p">>),
     Str(Starlark)}

CmdInputs == {Cmd(n, t) : n \in CmdNameInputs, t \in CmdTypeInputs}

FewCmdsInputs ==
    {NoCmds, Cmds(<< >>),
     Cmds(<<Cmd(Str(<<"a", "-", "1">>), Str(Executable))>>),
     Cmds(<<Cmd(Str(<<"A", "_", "b">>), Undef)>>)}

MetadataInputs ==
    {NoMetadata} \cup
    {Metadata(a, l, r) : a \in {Undef, Str(Somebody)}, l \in {Undef, Str(<<"M", "I", "T">>)},
                         r \in {Undef, Str(<<"u", "r", "l">>)}}

FsIdle ==
    /\ fs = [d \in DirPaths |-> << >>]
    /\ packagesDirectory = << >>
    /\ packageDirs = NotCalled
    /\ validateResult = NotValidatedPackages
    /\ packageResult = NotPackaged
    /\ run = NotRun
    /\ world = EmptyWorld
    /\ releaseResult = NotReleased(EmptyWorld)
    /\ archive = NotParsed

\* manifests that vary in every field, with few command lists
InitFields ==
    /\ FsIdle
    /\ pc = "manifest"
    /\ manifest \in {Manifest(n, v, c, md) : n \in PkgNameInputs, v \in VersionInputs,
                                            c \in FewCmdsInputs, md \in MetadataInputs}
    /\ validation = NotValidated

\* manifests that vary in their command lists, with few versions
InitCmds ==
    /\ FsIdle
    /\ pc = "manifest"
    /\ manifest \in {Manifest(n, v, c, md) :
                        n \in PkgNameInputs, v \in FewVersionInputs,
                        c \in {NoCmds} \cup {Cmds(s) : s \in SeqsUpTo(CmdInputs, MaxCmds)},
                        md \in {NoMetadata, Metadata(Str(Somebody), Undef, Undef)}}
    /\ validation = NotValidated

\* package names as YAML can parse them: none, null, 7, 'x', 'X_y'
ParsedPkgNameInputs ==
    {Undef, Null, Num(<<"7">>), Str(<<"x">>), Str(<<"X", "_", "y">>)}

\* versions as YAML can parse them: none, null, 0, 1 (from `version: 1.0`),
\* '1.0.0', 'v1.0.0'
ParsedVersionInputs ==
    {Undef, Null, Num(<<"0">>), Num(<<"1">>), Str(V100), Str(<<"v">> \o V100)}

\* entries of cmds as YAML can parse them: null, an executable command with no,
\* with an empty and with a set executable field, an alias, and an object whose
\* name and type are the number 7
ParsedCmdInputs ==
    {NullCmd,
     Command(Str(<<"r", "u", "n">>), Str(Executable), Undef),
     Command(Str(<<"r", "u", "n">>), Str(Executable), Str(<< >>)),
     Command(Str(<<"r", "u", "n">>), Str(Executable), Str(<<"b", "i", "n">>)),
     Command(Str(<<"r", "u", "n">>), Str(<<"a", "l", "i", "a", "s">>), Undef),
     Command(Num(<<"7">>), Num(<<"7">>), Undef)}

\* manifests whose fields take every kind of value the YAML parser can produce
InitParsed ==
    /\ FsIdle
    /\ pc = "manifest"
    /\ manifest \in {Manifest(n, v, c, md) :
                        n \in ParsedPkgNameInputs, v \in ParsedVersionInputs,
                        c \in {NoCmds} \cup
                              {Cmds(s) : s \in SeqsUpTo(ParsedCmdInputs, MaxCmds)},
                        md \in {NoMetadata, Metadata(Str(Somebody), Undef, Undef)}}
    /\ validation = NotValidated

CallValidateManifest ==
    /\ pc = "manifest"
    /\ pc' = "validated"
    /\ validation' = ValidateManifest(manifest)
    /\ UNCHANGED <<fsVars, manifest, archive, runVars>>

NextManifest == CallValidateManifest

SpecFields == InitFields /\ [][NextManifest]_vars

SpecCmds == InitCmds /\ [][NextManifest]_vars

SpecParsed == InitParsed /\ [][NextManifest]_vars

(***************************************************************************)
(* The parsers of archive names, on their own                              *)
(***************************************************************************)
MaxNameLen == 2         \* characters of an enumerated package name

\* package names over a letter, a digit and the hyphen
ArchiveNameInputs == SeqsUpTo({"a", "7", "-"}, MaxNameLen) \ {<< >>}

\* '1.0.0', '2.1.3', '10.0.0', '1.0.0-rc', '1.0.0-beta.1', '1.0.0-rc-1',
\* '1.0.0-1.2.3', '1.0.0+b7', and '1.0', 'beta', ''
ArchiveVersionInputs ==
    {V100,
     <<"2", ".", "1", ".", "3">>,
     <<"1", "0", ".", "0", ".", "0">>,
     V100 \o <<"-", "r", "c">>,
     V100 \o <<"-", "b", "e", "t", "a", ".", "1">>,
     V100 \o <<"-", "r", "c", "-", "1">>,
     V100 \o <<"-", "1", ".", "2", ".", "3">>,
     V100 \o <<"+", "b", "7">>,
     <<"1", ".", "0">>,
     <<"b", "e", "t", "a">>,
     << >>}

\* the file names of the tests that have no version
OtherFiles ==
    {<<"i", "n", "v", "a", "l", "i", "d">> \o DotPkg,
     <<"n", "o", "-", "v", "e", "r", "s", "i", "o", "n">> \o DotPkg}

InitArchive ==
    /\ FsIdle
    /\ pc = "archive"
    /\ manifest \in {Manifest(Str(n), Str(v), NoCmds, NoMetadata) :
                        n \in ArchiveNameInputs, v \in ArchiveVersionInputs}
    /\ validation = NotValidated

\* both parsers applied to a file name
ParseArchive(file) ==
    /\ pc = "archive"
    /\ pc' = "parsed"
    /\ archive' = [file |-> file, parsed |-> ParsePackageArchiveName(file),
                   pushed |-> PkgFileMatch(file)]
    /\ UNCHANGED <<fsVars, manifest, validation, runVars>>

\* the name createPackages gives the archive of the manifest, or a name of the tests
NextArchive ==
    \/ ParseArchive(ArchiveName(manifest))
    \/ \E file \in OtherFiles : ParseArchive(file)

SpecArchive == InitArchive /\ [][NextArchive]_vars

(***************************************************************************)
(* State machine: the host lays out the tree, then the action runs         *)
(***************************************************************************)
OwnerRepo == <<"o", "/", "r">>

\* the credentials of a run: all set, no OCI token, no GitHub token, no
\* GITHUB_REPOSITORY
CredentialInputs ==
    {[ociUsername |-> "user", ociToken |-> "token", githubToken |-> "ghp_token",
      githubRepository |-> OwnerRepo],
     [ociUsername |-> "user", ociToken |-> "", githubToken |-> "ghp_token",
      githubRepository |-> OwnerRepo],
     [ociUsername |-> "user", ociToken |-> "token", githubToken |-> "",
      githubRepository |-> OwnerRepo],
     [ociUsername |-> "user", ociToken |-> "token", githubToken |-> "ghp_token",
      githubRepository |-> << >>]}

RunInputs ==
    {[validateOnly |-> vo, packageFormat |-> pf, ociRegistry |-> "",
      ociUsername |-> c.ociUsername, ociToken |-> c.ociToken,
      githubToken |-> c.githubToken, githubRepository |-> c.githubRepository,
      forceRelease |-> fr] :
        vo \in {"true", "false"}, pf \in {"", "oci", "both", "tar"},
        c \in CredentialInputs, fr \in {"true", "false"}}

\* the manifests of the package directories of a run
RunDocuments == {"good", "second", "bad", "garbage"}

\* 'x-1.0.0.pkg' as createPackages names the archive of the good manifest
GoodArchive == ArchiveName(GoodManifest)

\* nothing published yet; or an archive left in build/packages by an earlier
\* run; or that archive, and version 1.0.0 of x in the registry and released
WorldInputs ==
    {EmptyWorld,
     [EmptyWorld EXCEPT !.outputFiles = <<GoodArchive>>],
     [outputFiles |-> <<GoodArchive>>,
      registry |-> {<<<<"x">>, V100>>, <<<<"x">>, Latest>>},
      tags |-> {TagName([name |-> Str(<<"x">>), version |-> Str(V100)])},
      releases |-> {TagName([name |-> Str(<<"x">>), version |-> Str(V100)])}]}

InitRun ==
    /\ fs = [d \in DirPaths |-> << >>]
    /\ pc = "setup"
    /\ packagesDirectory = << >>
    /\ packageDirs = NotCalled
    /\ validateResult = NotValidatedPackages
    /\ packageResult = NotPackaged
    /\ manifest = Manifest(Undef, Undef, NoCmds, NoMetadata)
    /\ validation = NotValidated
    /\ run = NotRun
    /\ world \in WorldInputs
    /\ releaseResult = NotReleased(EmptyWorld)
    /\ archive = NotParsed

\* run, up to the point where validatePackages has resolved the directories
RunStart(hint, inputs) ==
    LET found == FindPackageDirectories(fs, hint)
        aborted == ValidatePackages(fs, hint)
    IN /\ pc = "setup"
       /\ packagesDirectory' = hint
       /\ IF found.thrown \/ Len(found.dirs) = 0
          THEN /\ validateResult' = aborted
               /\ run' = SetFailed([NotRun EXCEPT !.inputs = inputs], aborted.error)
               /\ pc' = "failed"
          ELSE /\ validateResult' =
                     [NotValidatedPackages EXCEPT
                         !.displayDir = IF hint = << >> \/ hint = <<".">>
                                        THEN AutoDetect ELSE hint]
               /\ run' = [NotRun EXCEPT !.inputs = inputs, !.dirs = found.dirs]
               /\ pc' = "validating"
       /\ UNCHANGED <<fs, packageDirs, packageResult, mfVars, world, releaseResult>>

\* one iteration of the loop of validatePackages
RunValidateNext ==
    /\ pc = "validating"
    /\ ~LoopDone(run, validateResult)
    /\ validateResult' = ValidateOne(fs, validateResult, run.dirs[run.next])
    /\ run' = [run EXCEPT !.next = @ + 1]
    /\ UNCHANGED <<fs, pc, packagesDirectory, packageDirs, packageResult, mfVars, world,
                   releaseResult>>

\* validatePackages returns: run throws when a package is invalid, returns in
\* validate-only mode, and goes on to packaging otherwise
RunValidated ==
    /\ pc = "validating"
    /\ LoopDone(run, validateResult)
    /\ IF Len(validateResult.invalidPackages) > 0
       THEN run' = SetFailed(run, "Validation failed") /\ pc' = "failed"
       ELSE IF ValidateOnly(run.inputs)
       THEN run' = run /\ pc' = "done"
       ELSE run' = run /\ pc' = "packaging"
    /\ UNCHANGED <<fsVars, mfVars, world, releaseResult>>

\* the archives written to build/packages, added to its listing
WithArchives(files, archives) ==
    LET RECURSIVE Add(_, _)
        Add(listing, names) ==
            IF names = << >> THEN listing
            ELSE Add(IF \E i \in DOMAIN listing : listing[i] = Head(names)
                     THEN listing ELSE Append(listing, Head(names)),
                     Tail(names))
    IN Add(files, archives)

ArchiveEvents(archives) == [i \in DOMAIN archives |-> Event("archive", archives[i])]

\* step 2 of run: createPackages when the format asks for archives
RunCreatePackages ==
    LET result == CreatePackages(fs, packagesDirectory)
    IN /\ pc = "packaging"
       /\ IF NeedsZipPackages(run.inputs) \/ NeedsOciPush(run.inputs)
          THEN /\ packageResult' = result
               /\ fs' = MkdirOutput(fs)
               /\ world' = [world EXCEPT
                                !.outputFiles = WithArchives(@, result.archives)]
               /\ IF result.thrown
                  THEN /\ run' = SetFailed([run EXCEPT
                                      !.events = @ \o ArchiveEvents(result.archives)],
                                  result.error)
                       /\ pc' = "failed"
                  ELSE /\ run' = [run EXCEPT
                                      !.events = @ \o ArchiveEvents(result.archives)]
                       /\ pc' = "pushing"
          ELSE /\ pc' = "pushing"
               /\ UNCHANGED <<fs, packageResult, run, world>>
       /\ UNCHANGED <<packagesDirectory, packageDirs, validateResult, mfVars, releaseResult>>

\* step 3 of run: pushToOCI when the format asks for it
RunPushToOCI ==
    LET result == PushToOCI(world, ForceRelease(run.inputs))
    IN /\ pc = "pushing"
       /\ IF ~NeedsOciPush(run.inputs)
          THEN pc' = "releasing" /\ UNCHANGED <<run, world>>
          ELSE IF run.inputs.ociUsername = "" \/ run.inputs.ociToken = ""
          THEN /\ run' = SetFailed(run, "OCI registry credentials required")
               /\ pc' = "failed"
               /\ UNCHANGED world
          ELSE /\ world' = [world EXCEPT !.registry = result.registry]
               /\ IF result.thrown
                  THEN /\ run' = SetFailed([run EXCEPT !.events = @ \o result.events],
                                           result.error)
                       /\ pc' = "failed"
                  ELSE /\ run' = [run EXCEPT !.events = @ \o result.events]
                       /\ pc' = "releasing"
       /\ UNCHANGED <<fsVars, mfVars, releaseResult>>

\* step 4 of run: createPluginReleases when there are packages and a token,
\* then the final summary
RunCreateReleases(fault) ==
    LET result == CreatePluginReleases(world, packageResult.packages,
                                       run.inputs.githubRepository,
                                       ForceRelease(run.inputs), fault)
    IN /\ pc = "releasing"
       /\ IF ~(Len(packageResult.packages) > 0 /\ run.inputs.githubToken # "")
          THEN /\ run' = [run EXCEPT !.completed = TRUE]
               /\ pc' = "done"
               /\ UNCHANGED <<world, releaseResult>>
          ELSE IF run.inputs.githubRepository = << >>
          THEN /\ run' = SetFailed(run, "GITHUB_REPOSITORY environment variable not set")
               /\ pc' = "failed"
               /\ UNCHANGED <<world, releaseResult>>
          ELSE /\ world' = [world EXCEPT !.tags = result.tags,
                                         !.releases = result.releases]
               /\ releaseResult' = result
               /\ IF result.thrown
                  THEN /\ run' = SetFailed([run EXCEPT !.events = @ \o result.events],
                                           result.error)
                       /\ pc' = "failed"
                  ELSE /\ run' = [run EXCEPT !.events = @ \o result.events,
                                             !.completed = TRUE]
                       /\ pc' = "done"
       /\ UNCHANGED <<fsVars, mfVars>>

\* the action on trees one level deep
NextRun ==
    \/ \E name \in {"packages", "pa"} : Mkdir(<< >>, name)
    \/ \E d \in {<<"pa">>, <<"packages">>}, data \in RunDocuments :
           WriteFile(d, ManifestName, data)
    \/ \E hint \in Hints, inputs \in RunInputs : RunStart(hint, inputs)
    \/ RunValidateNext
    \/ RunValidated
    \/ RunCreatePackages
    \/ RunPushToOCI
    \/ \E fault \in Faults : RunCreateReleases(fault)

SpecRun == InitRun /\ [][NextRun]_vars

(***************************************************************************)
(* Properties of the resolver                                              *)
(***************************************************************************)
AutoHints == {<< >>, <<".">>}

\* the key of fs that a directory path stands for
KeyOf(dir) == IF dir \in AutoHints THEN << >> ELSE dir

\* the directory holds an entry named manifest.mf
DirectlyContainsManifest(f, dir) ==
    /\ KeyOf(dir) \in DirPaths
    /\ \E i \in DOMAIN f[KeyOf(dir)] : f[KeyOf(dir)][i].name = ManifestName

ExistsAsDirectory(f, dir) ==
    \/ KeyOf(dir) = << >>
    \/ \E i \in DOMAIN f[<< >>] : f[<< >>][i].name = dir[1] /\ f[<< >>][i].kind = "dir"

\* the immediate subdirectories of dir that hold manifest.mf, in listing order
SubdirectoryPackages(f, dir) ==
    LET IsPackage(e) == e.kind = "dir" /\ DirectlyContainsManifest(f, KeyOf(dir) \o <<e.name>>)
        kept == SelectSeq(f[KeyOf(dir)], IsPackage)
    IN [i \in DOMAIN kept |-> KeyOf(dir) \o <<kept[i].name>>]

\* C1: for a hint that is neither '' nor '.' and names a directory,
\* findPackageDirectories returns exactly the immediate subdirectories of the
\* hinted directory that directly contain manifest.mf, in listing order.
C1_ExplicitHintScansSubdirectories ==
    (pc = "find" /\ packagesDirectory \notin AutoHints
        /\ ExistsAsDirectory(fs, packagesDirectory))
    => /\ ~packageDirs.thrown
       /\ packageDirs.dirs = SubdirectoryPackages(fs, packagesDirectory)

C3_AutoDetect ==
    (pc = "find" /\ packagesDirectory = << >>)
    => /\ ~packageDirs.thrown
       /\ packageDirs.dirs = IF DirectlyContainsManifest(fs, <<".">>)
                             THEN <<<<".">>>>
                             ELSE SubdirectoryPackages(fs, <<".">>)

C3_Witness ==
    /\ pc = "find"
    /\ packagesDirectory = << >>
    /\ DirectlyContainsManifest(fs, <<".">>)
    /\ DirectlyContainsManifest(fs, <<"pa">>)
    /\ packageDirs.dirs = <<<<".">>>>

\* the tree with everything in the working directory removed but the entry `keep`
OnlyUnder(f, keep) ==
    LET IsKept(e) == e.name = keep
    IN [f EXCEPT ![<< >>] = SelectSeq(@, IsKept), ![<<"pa">>] = << >>]

\* C4: with a hint that is neither '' nor '.', the current directory is never
\* returned as a package and the result is the one obtained when the working
\* directory holds nothing but the hinted directory: a root manifest.mf does
\* not change it.
C4_ExplicitHintIgnoresRoot ==
    (pc = "find" /\ packagesDirectory \notin AutoHints)
    => /\ \A i \in DOMAIN packageDirs.dirs : packageDirs.dirs[i] # <<".">>
       /\ packageDirs = FindPackageDirectories(OnlyUnder(fs, packagesDirectory[1]),
                                               packagesDirectory)

C4_Witness ==
    /\ pc = "find"
    /\ packagesDirectory = <<"packages">>
    /\ DirectlyContainsManifest(fs, <<".">>)
    /\ packageDirs.dirs = <<<<"packages", "pa">>>>

\* the other spelling of auto-detect
OtherAuto(hint) == IF hint = << >> THEN <<".">> ELSE << >>

C6_DotForcesMultiPackage ==
    (pc = "find" /\ packagesDirectory = <<".">>)
    => /\ ~packageDirs.thrown
       /\ packageDirs.dirs = SubdirectoryPackages(fs, <<".">>)

\* C7: every path findPackageDirectories returns directly contains
\* manifest.mf and is the target directory or one of its immediate
\* subdirectories; entries that are not directories do not make the call
\* fail, and a manifest nested deeper never makes a directory a package.
C7_ReturnedPathsHoldManifest ==
    pc = "find"
    => /\ ExistsAsDirectory(fs, packagesDirectory) => ~packageDirs.thrown
       /\ \A i \in DOMAIN packageDirs.dirs :
            LET dir == packageDirs.dirs[i]
                target == KeyOf(packagesDirectory)
            IN /\ DirectlyContainsManifest(fs, dir)
               /\ \/ KeyOf(dir) = target
                  \/ \E j \in DOMAIN fs[target] :
                        /\ fs[target][j].kind = "dir"
                        /\ dir = target \o <<fs[target][j].name>>

C7_Witness ==
    /\ pc = "find"
    /\ packagesDirectory = <<"packages">>
    /\ \E i \in DOMAIN fs[<<"packages">>] :
          fs[<<"packages">>][i].name = "pb" /\ fs[<<"packages">>][i].kind = "file"
    /\ DirectlyContainsManifest(fs, <<"packages", "pa", "sub">>)
    /\ ~DirectlyContainsManifest(fs, <<"packages", "pa">>)
    /\ packageDirs = [thrown |-> FALSE, dirs |-> << >>]

(***************************************************************************)
(* Properties of the validator                                             *)
(***************************************************************************)
\* ^[a-z0-9]+(-[a-z0-9]+)*$
LowercaseHyphenName(s) ==
    /\ s # << >>
    /\ \A i \in DOMAIN s : s[i] \in LowerLetters \cup Digits \cup {"-"}
    /\ s[1] # "-" /\ s[Len(s)] # "-"
    /\ \A i \in 1..(Len(s) - 1) : ~(s[i] = "-" /\ s[i + 1] = "-")

\* MAJOR.MINOR.PATCH[-PRERELEASE], and with withBuild also [+BUILD]
SemanticVersion(s, withBuild) ==
    LET plus == FirstIndex(s, "+")
        core == IF withBuild /\ plus # 0 THEN SubSeq(s, 1, plus - 1) ELSE s
        build == IF withBuild /\ plus # 0 THEN Split(SubSeq(s, plus + 1, Len(s)), ".")
                 ELSE << >>
        dash == FirstIndex(core, "-")
        numbers == Split(IF dash = 0 THEN core ELSE SubSeq(core, 1, dash - 1), ".")
        pre == IF dash = 0 THEN << >> ELSE Split(SubSeq(core, dash + 1, Len(core)), ".")
        Identifier(x) == x # << >> /\ \A i \in DOMAIN x :
                             x[i] \in Digits \cup LowerLetters \cup UpperLetters \cup {"-"}
        Number(x) == x # << >> /\ (\A i \in DOMAIN x : x[i] \in Digits)
                     /\ (Len(x) > 1 => x[1] # "0")
        AllDigits(x) == \A i \in DOMAIN x : x[i] \in Digits
    IN /\ Len(numbers) = 3
       /\ \A i \in DOMAIN numbers : Number(numbers[i])
       /\ \A i \in DOMAIN pre : Identifier(pre[i]) /\ (AllDigits(pre[i]) => Number(pre[i]))
       /\ \A i \in DOMAIN build : Identifier(build[i])

VersionRules == {"Missing required field: version",
                 "Invalid version format: remove 'v' prefix",
                 "Invalid version format: must be valid semver"}

IsVersionError(e) == e.rule \in VersionRules

VersionErrorsOf(result) == SelectSeq(result.errors, IsVersionError)

VersionErrorsAsClaimed(withBuild) ==
    (pc = "validated" /\ manifest.version.k = "str" /\ manifest.version.s # << >>)
    => LET v == manifest.version.s
           got == VersionErrorsOf(validation)
       IN IF StartsWith(v, "v")
          THEN Len(got) = 1 /\ got[1].rule = "Invalid version format: remove 'v' prefix"
          ELSE IF ~SemanticVersion(v, withBuild)
          THEN Len(got) = 1 /\ got[1].rule = "Invalid version format: must be valid semver"
          ELSE got = << >>

Defects(m) ==
    {d \in {<<0, r>> : r \in 1..3} :
        \/ d[2] = 1 /\ Falsy(m.pkgName)
        \/ d[2] = 2 /\ (Falsy(m.version) \/ StartsWith(m.version.s, "v")
                        \/ ~SemanticVersion(m.version.s, TRUE))
        \/ d[2] = 3 /\ (m.cmds.k = "undef" \/ m.cmds.items = << >>)}
    \cup
    {d \in (DOMAIN m.cmds.items) \X (1..3) :
        LET cmd == m.cmds.items[d[1]]
        IN \/ d[2] = 1 /\ Falsy(cmd.name)
           \/ d[2] = 2 /\ (Falsy(cmd.type)
                           \/ cmd.type.s \notin {Executable, <<"a", "l", "i", "a", "s">>,
                                                 <<"g", "r", "o", "u", "p">>})
           \/ d[2] = 3 /\ ~Falsy(cmd.name)
                       /\ \E i \in DOMAIN cmd.name.s :
                             cmd.name.s[i] \notin LowerLetters \cup Digits \cup {"-"}}

\* the place of a defect when the defects are listed manifest first, then
\* command by command, the rules in order
PlaceOf(d, all) ==
    1 + Cardinality({e \in all : e[1] < d[1] \/ (e[1] = d[1] /\ e[2] < d[2])})

\* the rule an error reports, as <<manifest or command level, rule number>>
RuleOf(e) ==
    CASE e.rule = "Missing required field: pkgName" -> <<"manifest", 1>>
      [] e.rule \in VersionRules -> <<"manifest", 2>>
      [] e.rule = "Missing required field: cmds" -> <<"manifest", 3>>
      [] e.rule = "Command at index is missing 'name' field" -> <<"command", 1>>
      [] e.rule \in {"Command is missing 'type' field", "Command has invalid type"} ->
            <<"command", 2>>
      [] e.rule = "Command name contains invalid characters" -> <<"command", 3>>

\* C10: validateManifest reports every defect: as many errors as defects, in
\* the order package name, version, commands, then for each command in
\* declaration order missing name, missing or invalid type, invalid name
\* characters.
C10_ExhaustiveInRuleOrder ==
    pc = "validated"
    => LET all == Defects(manifest)
       IN /\ Len(validation.errors) = Cardinality(all)
          /\ \A d \in all :
               LET e == validation.errors[PlaceOf(d, all)]
               IN /\ RuleOf(e) = <<IF d[1] = 0 THEN "manifest" ELSE "command", d[2]>>
                  /\ RuleOf(e) = <<"command", 1>> => e.index = d[1] - 1

C10_Witness ==
    /\ pc = "validated"
    /\ Len(manifest.cmds.items) = 2
    /\ Len(validation.errors) = 6

\* C11: validateManifest never throws: for every manifest value the reader can
\* return, fields of an unexpected kind included (a version that YAML parsed as
\* a number, a null entry in the commands list), it returns a ValidationResult.
C11_ValidateManifestNeverThrows ==
    pc = "validated" => ~validation.thrown

MetadataFields == {"author", "license", "repository"}

\* C12: valid is true exactly when errors is empty, whatever the warnings; each
\* of the three metadata warnings (author, license, repository) is present
\* exactly when its own field is absent, so a manifest with no metadata carries
\* exactly three warnings and is still valid when it has no error.
C12_ValidIffNoErrors ==
    pc = "validated" =>
        LET w == validation.warnings
            has(x) == \E i \in DOMAIN w : w[i] = x
            absent(f) == manifest.metadata.k = "undef" \/ Falsy(manifest.metadata[f])
        IN /\ validation.valid <=> validation.errors = << >>
           /\ has("Missing recommended field: _metadata.author") <=> absent("author")
           /\ has("Missing recommended field: _metadata.license") <=> absent("license")
           /\ has("Missing recommended field: _metadata.repository")
                  <=> absent("repository")
           /\ Len(w) = Cardinality({f \in MetadataFields : absent(f)})
           /\ manifest.metadata = NoMetadata => Len(w) = 3

C12_Witness ==
    /\ pc = "validated"
    /\ manifest.metadata = NoMetadata
    /\ validation.valid
    /\ Len(validation.warnings) = 3

CommandRules == {"Command at index is missing 'name' field",
                 "Command is missing 'type' field",
                 "Command has invalid type",
                 "Command name contains invalid characters"}

IsCmdsError(e) == e.rule = "Missing required field: cmds"

IsCommandError(e) == e.rule \in CommandRules

\* C13: for a manifest whose commands list is empty the missing-commands error
\* is reported exactly once and no command-level error is reported; when the
\* package name and the version are valid it is the only error.
C13_EmptyCommandsList ==
    (pc = "validated" /\ manifest.cmds = Cmds(<< >>))
    => /\ Len(SelectSeq(validation.errors, IsCmdsError)) = 1
       /\ SelectSeq(validation.errors, IsCommandError) = << >>
       /\ (/\ manifest.pkgName.k = "str" /\ manifest.pkgName.s # << >>
           /\ manifest.version.k = "str" /\ ~StartsWith(manifest.version.s, "v")
           /\ SemanticVersion(manifest.version.s, TRUE))
          => /\ Len(validation.errors) = 1
             /\ ~validation.valid

C13_Witness ==
    /\ pc = "validated"
    /\ manifest.cmds = Cmds(<< >>)
    /\ manifest.pkgName = Str(<<"x">>)
    /\ manifest.version = Str(V100)
    /\ Len(validation.errors) = 1
    /\ validation.errors[1].rule = "Missing required field: cmds"

\* the invalid-characters errors that name the command name n
InvalidCharacterErrors(n) ==
    LET names(e) == e.rule = "Command name contains invalid characters" /\ e.name = n
    IN SelectSeq(validation.errors, names)

\* the commands whose name is the string n
CommandsNamed(n) ==
    LET named(cmd) == cmd.name = Str(n)
    IN SelectSeq(manifest.cmds.items, named)

\* C14: a command whose name is present but does not match
\* ^[a-z0-9]+(-[a-z0-9]+)*$ (an uppercase letter, an underscore, a leading,
\* trailing or doubled hyphen) gets an invalid-characters error for exactly
\* that command, and a command whose name matches gets none.
C14_InvalidCommandNameFlagged ==
    (pc = "validated" /\ manifest.cmds.k = "list")
    => \A i \in DOMAIN manifest.cmds.items :
          LET name == manifest.cmds.items[i].name
          IN (name.k = "str" /\ name.s # << >>)
             => Len(InvalidCharacterErrors(name.s)) =
                   IF LowercaseHyphenName(name.s) THEN 0
                   ELSE Len(CommandsNamed(name.s))

\* C15: the package name is validated against the lowercase-hyphen pattern: a
\* non-empty pkgName with an uppercase letter, an underscore or another
\* character outside the pattern makes the manifest invalid.
C15_PackageNamePatternEnforced ==
    (/\ pc = "validated" /\ ~validation.thrown
     /\ manifest.pkgName.k = "str" /\ manifest.pkgName.s # << >>
     /\ ~LowercaseHyphenName(manifest.pkgName.s))
    => ~validation.valid /\ validation.errors # << >>

\* C16: a command of type 'executable' must carry an 'executable' field: a
\* manifest with such a command whose executable field is missing or empty is
\* reported invalid.
C16_ExecutableFieldRequired ==
    (/\ pc = "validated" /\ ~validation.thrown
     /\ manifest.cmds.k = "list"
     /\ \E i \in DOMAIN manifest.cmds.items :
          LET cmd == manifest.cmds.items[i]
          IN cmd.k = "obj" /\ cmd.type = Str(Executable) /\ Falsy(cmd.executable))
    => ~validation.valid /\ validation.errors # << >>

TypeRules == {"Command is missing 'type' field", "Command has invalid type"}

IsTypeError(e) == e.rule \in TypeRules

\* a command whose type is missing or outside {executable, alias, group}
HasTypeDefect(cmd) ==
    \/ Falsy(cmd.type)
    \/ cmd.type.s \notin {Executable, <<"a", "l", "i", "a", "s">>, <<"g", "r", "o", "u", "p">>}

C18_StarlarkIsAValidType ==
    (/\ pc = "validated"
     /\ manifest = Manifest(Str(<<"x">>), Str(V100),
                            Cmds(<<Cmd(Str(<<"a", "-", "1">>), Str(Starlark))>>),
                            NoMetadata))
    => validation.valid

(***************************************************************************)
(* Properties of the validation pass                                       *)
(***************************************************************************)
\* the directories the resolver enumerates for the hint of the pass
ResolvedDirs == FindPackageDirectories(fs, packagesDirectory).dirs

ResolvedNames == [i \in DOMAIN ResolvedDirs |-> Basename(ResolvedDirs[i])]

\* the document in the manifest.mf of a package directory
DocumentIn(packageDir) == Lookup(fs, PathJoin(packageDir, <<ManifestName>>)).data

Occurrences(seq, x) == Cardinality({i \in DOMAIN seq : seq[i] = x})

\* C19: validatePackages evaluates the whole batch: a directory whose manifest
\* cannot be read or fails validation is recorded as invalid and the loop goes
\* on; on return every resolved directory is in exactly one of validPackages
\* and invalidPackages, each list in enumeration order.
C19_WholeBatchEvaluated ==
    (pc = "validate" /\ ~validateResult.thrown)
    => LET valid == validateResult.validPackages
           invalid == validateResult.invalidPackages
           inValid(n) == Occurrences(valid, n) > 0
           inInvalid(n) == Occurrences(invalid, n) > 0
       IN /\ Len(valid) + Len(invalid) = Len(ResolvedDirs)
          /\ \A i \in DOMAIN ResolvedDirs :
                /\ Occurrences(valid, ResolvedNames[i])
                      + Occurrences(invalid, ResolvedNames[i]) = 1
                /\ inValid(ResolvedNames[i]) <=> DocumentIn(ResolvedDirs[i]) = "good"
          /\ valid = SelectSeq(ResolvedNames, inValid)
          /\ invalid = SelectSeq(ResolvedNames, inInvalid)

\* the first directory has a manifest that cannot be read, the second is valid
C19_Witness ==
    /\ pc = "validate" /\ ~validateResult.thrown
    /\ Len(ResolvedDirs) = 2
    /\ ReadManifest(fs, ResolvedDirs[1]).thrown
    /\ validateResult.invalidPackages = <<ResolvedNames[1]>>
    /\ validateResult.validPackages = <<ResolvedNames[2]>>

(***************************************************************************)
(* Properties of a run                                                     *)
(***************************************************************************)
\* C20: once a package directory has been found invalid, the run is marked
\* failed only after the loop has gone through every directory, it never gets
\* past validation, and it has no effect: no archive is created, nothing is
\* pushed to the OCI registry and no tag or release is created.
C20_InvalidPackageFailsRunAfterAll ==
    (pc # "setup" /\ Len(validateResult.invalidPackages) > 0)
    => /\ pc \in {"validating", "failed"}
       /\ run.failed <=> pc = "failed"
       /\ run.failed => /\ run.next > Len(run.dirs)
                        /\ Len(validateResult.validPackages)
                              + Len(validateResult.invalidPackages) = Len(run.dirs)
                        /\ run.message = "Validation failed"
       /\ ~run.completed
       /\ run.events = << >>
       /\ world \in WorldInputs
       /\ packageResult = NotPackaged

\* the first of two directories is invalid, the second was still validated
C20_Witness ==
    /\ pc = "failed" /\ run.failed
    /\ Len(run.dirs) = 2
    /\ validateResult.invalidPackages = <<Basename(run.dirs[1])>>
    /\ validateResult.validPackages = <<Basename(run.dirs[2])>>
    /\ run.inputs.validateOnly = "false"
    /\ run.events = << >>

\* C21: when the resolver returns an empty list, validatePackages aborts with
\* the 'no packages found' failure before any manifest is read or validated
\* (nothing is tallied), and the run is marked failed, never reported complete.
C21_NoPackagesAbortsTheRun ==
    (/\ pc # "setup"
     /\ FindPackageDirectories(fs, packagesDirectory) = [thrown |-> FALSE, dirs |-> << >>])
    => /\ pc = "failed"
       /\ validateResult.thrown /\ validateResult.error = "No packages found"
       /\ validateResult.validPackages = << >>
       /\ validateResult.invalidPackages = << >>
       /\ validateResult.totalErrors = 0 /\ validateResult.totalWarnings = 0
       /\ run.failed /\ run.message = "No packages found"
       /\ ~run.completed
       /\ run.events = << >>

\* the tree holds a directory, but no package
C21_Witness ==
    /\ pc = "failed"
    /\ run.message = "No packages found"
    /\ Len(fs[<< >>]) > 0
    /\ FindPackageDirectories(fs, packagesDirectory).dirs = << >>

\* C22: with validate-only 'true' the run stops after validation, whatever the
\* other inputs, the tree and the state of the registry and the repository: no
\* archive is created, there is no OCI login or push, and no git tag or GitHub
\* release is created or deleted.
C22_ValidateOnlyHasNoEffect ==
    (pc # "setup" /\ run.inputs.validateOnly = "true")
    => /\ pc \in {"validating", "failed", "done"}
       /\ run.events = << >>
       /\ world \in WorldInputs
       /\ packageResult = NotPackaged
       /\ ~Access(fs, <<".", OutputDirectory[1]>>)

\* a validate-only run of valid packages has ended, with everything to publish
\* them at hand
C22_Witness ==
    /\ pc = "done" /\ ~run.failed
    /\ run.inputs.validateOnly = "true"
    /\ run.inputs.packageFormat = "both"
    /\ run.inputs.ociToken # "" /\ run.inputs.githubToken # ""
    /\ run.inputs.githubRepository # << >>
    /\ Len(validateResult.validPackages) = 2
    /\ run.events = << >>

OciOps == {"oras login", "oras push", "oras tag", "oras logout"}

ReleaseOps == {"delete release", "delete tag", "push tag", "create release", "upload asset"}

\* the run has had an effect of one of the given kinds
Did(ops) == \E i \in DOMAIN run.events : run.events[i].op \in ops

\* C23: package-format selects the distribution channel: with 'zip' the run
\* never touches the OCI registry, with 'oci' it never creates (or deletes) a
\* GitHub release or tag, and with 'both' a run that completes has logged in to
\* the registry as well as made its archives.
C23_FormatSelectsChannel ==
    pc # "setup"
    => /\ run.inputs.packageFormat \in {"", "zip"} => ~Did(OciOps)
       /\ run.inputs.packageFormat = "oci" => ~Did(ReleaseOps)
       /\ (run.inputs.packageFormat = "both" /\ run.completed)
             => Did({"archive"}) /\ Did(OciOps)

(***************************************************************************)
(* createPluginReleases called again and again on one repository           *)
(***************************************************************************)
\* the PackageInfo createPackages makes of a manifest in packages/<name>
PackageOf(m) ==
    [name |-> m.pkgName, version |-> m.version,
     archivePath |-> <<OutputDirectory, ArchiveName(m)>>,
     sourceDirectory |-> <<"packages">> \o <<Interpolate(m.pkgName)>>]

\* the packages of a run: one or two of x 1.0.0, x 2.0.0 and y 2.0.0
PackagesInputs ==
    LET released == {PackageOf(GoodManifest),
                     PackageOf([GoodManifest EXCEPT !.version = Str(V200)]),
                     PackageOf(SecondManifest)}
    IN {<<p>> : p \in released}
       \cup {<<pair[1], pair[2]>> :
                pair \in {both \in released \X released : both[1] # both[2]}}

InitReleases ==
    /\ FsIdle
    /\ pc = "releases"
    /\ manifest = Manifest(Undef, Undef, NoCmds, NoMetadata)
    /\ validation = NotValidated

\* a run of createPluginReleases without force-release, in which a call may fail
CallCreatePluginReleases(packages, fault) ==
    LET result == CreatePluginReleases(world, packages, OwnerRepo, FALSE, fault)
    IN /\ pc = "releases"
       /\ releaseResult' = result
       /\ world' = [world EXCEPT !.tags = result.tags, !.releases = result.releases]
       /\ UNCHANGED <<fsVars, pc, mfVars, run>>

NextReleases ==
    \E packages \in PackagesInputs, fault \in Faults :
        CallCreatePluginReleases(packages, fault)

SpecReleases == InitReleases /\ [][NextReleases]_vars

(***************************************************************************)
(* C24: the release step of a run, package by package                      *)
(***************************************************************************)
\* the calls a sequence of events records for one tag, in order
OpsFor(events, tagName) ==
    LET About(e) == e.arg = tagName
        about == SelectSeq(events, About)
    IN [i \in DOMAIN about |-> about[i].op]

\* the step of a run that calls createPluginReleases, none of its calls failing
ReleasesCreated ==
    /\ pc = "releasing" /\ pc' = "done"
    /\ Len(packageResult.packages) > 0
    /\ run.inputs.githubToken # ""

\* no other package of the run has the tag of the i-th
OwnTag(i) ==
    \A j \in DOMAIN packageResult.packages :
        j # i => TagName(packageResult.packages[j]) # TagName(packageResult.packages[i])

UploadInOrder == <<"push tag", "create release", "upload asset">>

\* C24: in the release step of a run, a package whose tag exists is skipped when
\* force-release is false, and nothing is created or deleted for it; when
\* force-release is true its release and its tag are deleted before the new tag and
\* release are created; a package whose tag does not exist gets tag, release and
\* asset, in that order.
C24_ExistingTagSkippedOrReplaced ==
    [][ReleasesCreated =>
        \A i \in DOMAIN packageResult.packages :
            LET tagName == TagName(packageResult.packages[i])
                ops == OpsFor(SubSeq(run'.events, Len(run.events) + 1, Len(run'.events)),
                              tagName)
                named(list) == \E k \in DOMAIN list : list[k] = tagName
            IN OwnTag(i) =>
               IF tagName \in world.tags /\ ~ForceRelease(run.inputs)
               THEN /\ ops = << >>
                    /\ named(releaseResult'.skippedReleases)
                    /\ tagName \in world'.tags
                    /\ tagName \in world'.releases <=> tagName \in world.releases
               ELSE IF tagName \in world.tags
               THEN /\ ops = (IF tagName \in world.releases
                              THEN <<"delete release">> ELSE << >>)
                             \o <<"delete tag">> \o UploadInOrder
                    /\ named(releaseResult'.deletedReleases)
                    /\ named(releaseResult'.createdReleases)
               ELSE /\ ops = UploadInOrder
                    /\ named(releaseResult'.createdReleases)
                    /\ tagName \in world'.tags /\ tagName \in world'.releases]_vars

\* a forced run over x 1.0.0, which was released before, and y 2.0.0, which was not
C24_Witness ==
    LET x == TagName([name |-> Str(<<"x">>), version |-> Str(V100)])
        y == TagName([name |-> Str(<<"y">>), version |-> Str(V200)])
    IN /\ pc = "done" /\ run.completed
       /\ ForceRelease(run.inputs)
       /\ OpsFor(run.events, x) = <<"delete release", "delete tag">> \o UploadInOrder
       /\ OpsFor(run.events, y) = UploadInOrder
       /\ releaseResult.deletedReleases = <<x>>
       /\ Len(releaseResult.createdReleases) = 2

\* a run without force-release that leaves the released x 1.0.0 alone
C24_SkipWitness ==
    LET x == TagName([name |-> Str(<<"x">>), version |-> Str(V100)])
    IN /\ pc = "done" /\ run.completed
       /\ ~ForceRelease(run.inputs)
       /\ releaseResult.skippedReleases = <<x>>
       /\ OpsFor(run.events, x) = << >>
       /\ x \in world.releases

(***************************************************************************)
(* C25: the push step of a run, archive by archive                         *)
(***************************************************************************)
\* the step of a run that calls pushToOCI
PushCalled ==
    /\ pc = "pushing"
    /\ NeedsOciPush(run.inputs)
    /\ run.inputs.ociUsername # "" /\ run.inputs.ociToken # ""

\* the oras calls a sequence of events records for one OCI reference
EventsFor(events, ociRef) ==
    LET About(e) == Len(e.arg) = 2 /\ e.arg[1] = ociRef
    IN SelectSeq(events, About)

\* the archives of build/packages whose version is in the registry
Published(w) ==
    {i \in DOMAIN w.outputFiles :
        <<SanitizeName(PkgFileMatch(w.outputFiles[i]).pkgName),
          PkgFileMatch(w.outputFiles[i]).version>> \in w.registry}

\* C25: an already-published version is not an error: without force-release
\* pushToOCI neither pushes nor retags it and counts it as skipped, and the run
\* goes on, also when every package is skipped; with force-release the version is
\* pushed again and latest is retagged.
C25_PublishedVersionSkippedOrOverridden ==
    [][PushCalled =>
        /\ \A i \in Published(world) :
               LET ociRef == SanitizeName(PkgFileMatch(world.outputFiles[i]).pkgName)
                   version == PkgFileMatch(world.outputFiles[i]).version
                   did == EventsFor(SubSeq(run'.events, Len(run.events) + 1,
                                           Len(run'.events)), ociRef)
               IN IF ForceRelease(run.inputs)
                  THEN did = <<Event("oras push", <<ociRef, version>>),
                               Event("oras tag", <<ociRef, Latest>>)>>
                  ELSE did = << >>
        /\ ~ForceRelease(run.inputs) =>
               /\ PushToOCI(world, FALSE).skippedCount = Cardinality(Published(world))
               /\ world.registry \subseteq world'.registry
        /\ Published(world) # {} => pc' = "releasing" /\ ~run'.failed]_vars

\* a run in which every archive was already published, and which completed
C25_Witness ==
    /\ pc = "done" /\ run.completed /\ ~run.failed
    /\ ~ForceRelease(run.inputs)
    /\ Did({"oras login"}) /\ Did({"oras logout"}) /\ ~Did({"oras push", "oras tag"})
    /\ Published(world) = DOMAIN world.outputFiles

\* a forced run that pushed the published x 1.0.0 again
C25_ForcedWitness ==
    /\ pc = "done" /\ run.completed
    /\ ForceRelease(run.inputs)
    /\ EventsFor(run.events, <<"x">>) =
           <<Event("oras push", <<<<"x">>, V100>>), Event("oras tag", <<<<"x">>, Latest>>)>>
    /\ Len(packageResult.packages) = 1
    /\ packageResult.packages[1].name = Str(<<"x">>)

(***************************************************************************)
(* C26: archive names parsed back                                          *)
(***************************************************************************)
\* the archive was named after the manifest, whose version is valid semver
NamedAfterValidVersion ==
    /\ pc = "parsed"
    /\ archive.file = ArchiveName(manifest)
    /\ SemverValid(manifest.version.s)
    /\ ~StartsWith(manifest.version.s, "v")

\* no three dotted numbers anywhere in the file name
NoThreeComponents(file) ==
    \A p \in DOMAIN file : ~StartsWithThreeNumbers(SubSeq(file, p, Len(file)))

\* C26: parsePackageArchiveName and the pattern of pushToOCI recover the name and
\* the version of every archive named '<name>-<version>.pkg' after a valid semver
\* version, and match no file name without a three-component version.
C26_ArchiveNameRoundTrip ==
    /\ NamedAfterValidVersion =>
           /\ archive.parsed = [matched |-> TRUE, name |-> manifest.pkgName.s,
                                version |-> manifest.version.s]
           /\ archive.pushed = [matched |-> TRUE, pkgName |-> manifest.pkgName.s,
                                version |-> manifest.version.s]
    /\ (pc = "parsed" /\ NoThreeComponents(archive.file)) =>
           ~archive.parsed.matched /\ ~archive.pushed.matched

\* the half of C26 about file names without a version, which holds
C26_NoVersionNoMatch ==
    (pc = "parsed" /\ NoThreeComponents(archive.file)) =>
        ~archive.parsed.matched /\ ~archive.pushed.matched

\* the round trip for versions without a pre-release suffix, which holds
C26_PlainVersionRoundTrip ==
    (NamedAfterValidVersion /\ FirstIndex(manifest.version.s, "-") = 0
                            /\ FirstIndex(manifest.version.s, "+") = 0)
    => /\ archive.parsed = [matched |-> TRUE, name |-> manifest.pkgName.s,
                            version |-> manifest.version.s]
       /\ archive.pushed = [matched |-> TRUE, pkgName |-> manifest.pkgName.s,
                            version |-> manifest.version.s]

(***************************************************************************)
(* C27: the totals of validatePackages                                     *)
(***************************************************************************)
RECURSIVE Sum(_)
Sum(numbers) == IF numbers = << >> THEN 0 ELSE Head(numbers) + Sum(Tail(numbers))

\* what the claim counts for a directory: the errors and the warnings
\* validateManifest returns for its manifest, one error when it cannot be read
ErrorsOf(packageDir) ==
    IF ReadManifest(fs, packageDir).thrown THEN 1
    ELSE Len(ValidateManifest(ReadManifest(fs, packageDir).manifest).errors)

WarningsOf(packageDir) ==
    IF ReadManifest(fs, packageDir).thrown THEN 0
    ELSE Len(ValidateManifest(ReadManifest(fs, packageDir).manifest).warnings)

\* validateManifest returns for every manifest of the pass that can be read
ValidatorReturns ==
    \A i \in DOMAIN ResolvedDirs :
        \/ ReadManifest(fs, ResolvedDirs[i]).thrown
        \/ ~ValidateManifest(ReadManifest(fs, ResolvedDirs[i]).manifest).thrown

\* C27: after validatePackages, totalErrors is the sum over the resolved
\* directories of the errors validateManifest returns for a manifest that was
\* read, and of one error for a manifest that cannot be read; totalWarnings is the
\* sum of the warnings; a directory is invalid exactly when its count of errors
\* is not zero.
C27_TotalsAreTheValidatorCounts ==
    (pc = "validate" /\ ~validateResult.thrown /\ ValidatorReturns)
    => /\ validateResult.totalErrors =
              Sum([i \in DOMAIN ResolvedDirs |-> ErrorsOf(ResolvedDirs[i])])
       /\ validateResult.totalWarnings =
              Sum([i \in DOMAIN ResolvedDirs |-> WarningsOf(ResolvedDirs[i])])
       /\ \A i \in DOMAIN ResolvedDirs :
              Occurrences(validateResult.invalidPackages, ResolvedNames[i]) > 0
              <=> ErrorsOf(ResolvedDirs[i]) > 0

\* the same, for passes in which every manifest that is read has a cmds field
C27_TotalsWhenCmdsPresent ==
    (/\ pc = "validate" /\ ~validateResult.thrown /\ ValidatorReturns
     /\ \A i \in DOMAIN ResolvedDirs :
            \/ ReadManifest(fs, ResolvedDirs[i]).thrown
            \/ ReadManifest(fs, ResolvedDirs[i]).manifest.cmds.k # "undef")
    => /\ validateResult.totalErrors =
              Sum([i \in DOMAIN ResolvedDirs |-> ErrorsOf(ResolvedDirs[i])])
       /\ validateResult.totalWarnings =
              Sum([i \in DOMAIN ResolvedDirs |-> WarningsOf(ResolvedDirs[i])])
       /\ \A i \in DOMAIN ResolvedDirs :
              Occurrences(validateResult.invalidPackages, ResolvedNames[i]) > 0
              <=> ErrorsOf(ResolvedDirs[i]) > 0

(***************************************************************************)
(* C28: what a run reports as skipped                                      *)
(***************************************************************************)
\* C28: in every sequence of runs of createPluginReleases without force-release,
\* runs that abort after the tag was pushed included, a package that a run
\* reports as skipped ('already exist') has a GitHub release for its tag.
C28_SkippedMeansReleased ==
    (pc = "releases" /\ ~releaseResult.thrown)
    => \A i \in DOMAIN releaseResult.skippedReleases :
           releaseResult.skippedReleases[i] \in world.releases

\* the same for the tag, which is what the loop looks at: this holds
C28_SkippedMeansTagged ==
    pc = "releases"
    => \A i \in DOMAIN releaseResult.skippedReleases :
           releaseResult.skippedReleases[i] \in world.tags

(***************************************************************************)
(* C29: where the pushed archives come from                                *)
(***************************************************************************)
\* the i-th package of createPackages was validated in this run and is the one
\* an `oras push` to ociRef:version publishes
PackagedAs(i, ociRef, version) ==
    /\ SanitizeName(Interpolate(packageResult.packages[i].name)) = ociRef
    /\ Interpolate(packageResult.packages[i].version) = version
    /\ Occurrences(validateResult.validPackages,
                   Basename(packageResult.packages[i].sourceDirectory)) > 0
    /\ Did({"archive"})

\* C29: every archive a run pushes to the registry was created by createPackages
\* in that run, from a package directory that passed validation in that run,
\* whatever build/packages held when the run started.
C29_OnlyArchivesOfThisRunArePushed ==
    \A e \in DOMAIN run.events :
        run.events[e].op = "oras push"
        => \E i \in DOMAIN packageResult.packages :
               PackagedAs(i, run.events[e].arg[1], run.events[e].arg[2])

\* the same for runs that start with an empty build/packages: this holds
C29_WhenOutputStartsEmpty ==
    (\A f \in DOMAIN world.outputFiles :
        \E a \in DOMAIN packageResult.archives :
            packageResult.archives[a] = world.outputFiles[f])
    => C29_OnlyArchivesOfThisRunArePushed

(***************************************************************************)
(* C30: a package format that is none of the three                         *)
(***************************************************************************)
\* a run with another package-format value, past a validation that found every
\* manifest valid, and not in validate-only mode
OtherFormatPastValidation ==
    /\ pc \notin {"setup", "validating"}
    /\ PackageFormat(run.inputs) \notin {"zip", "oci", "both"}
    /\ ~ValidateOnly(run.inputs)
    /\ ~validateResult.thrown
    /\ Len(validateResult.invalidPackages) = 0

\* C30: with a package-format other than 'zip', 'oci' and 'both', all manifests
\* valid and validate-only false, the run creates no archive, pushes nothing and
\* creates no release, is never marked failed, and ends with the report that all
\* steps completed successfully.
C30_OtherFormatDoesNothingAndSucceeds ==
    OtherFormatPastValidation
    => /\ pc \in {"packaging", "pushing", "releasing", "done"}
       /\ ~run.failed
       /\ run.events = << >>
       /\ packageResult = NotPackaged
       /\ world \in WorldInputs
       /\ ~Access(fs, <<".", OutputDirectory[1]>>)
       /\ pc = "done" => run.completed

\* such a run of two valid packages has ended, with every credential set
C30_Witness ==
    /\ pc = "done" /\ run.completed /\ ~run.failed
    /\ run.inputs.packageFormat = "tar"
    /\ run.inputs.validateOnly = "false"
    /\ run.inputs.ociToken # "" /\ run.inputs.githubToken # ""
    /\ run.inputs.githubRepository # << >>
    /\ Len(validateResult.validPackages) = 2
    /\ run.events = << >>

====
